---- MODULE Spec2Model ----
(***************************************************************************)
(* TaskZen: the task list state engine.                                    *)
(*                                                                         *)
(* The canonical task collection held by App, the view derivation and the  *)
(* drag-reorder handler of TaskList, the JSON export/import codec and the  *)
(* localStorage adapter, modelled as one state machine.                    *)
(*                                                                         *)
(* Representation of JavaScript values:                                    *)
(*   - an object is a function whose DOMAIN is its set of own keys;        *)
(*   - an optional field holds <<>> for undefined and <<v>> for a value v; *)
(*     a key that is not in the DOMAIN is an absent own key;               *)
(*   - a string is a sequence of one-character strings;                    *)
(*   - a timestamp is a natural number; Date.now() reads the variable now. *)
(***************************************************************************)
EXTENDS Integers, Sequences, FiniteSets, TLC

VARIABLES
    tasks,          \* App: const [tasks, setTasks]
    isDarkMode,     \* App: const [isDarkMode, setIsDarkMode]
    isFocusMode,    \* App: const [isFocusMode, setIsFocusMode]
    searchQuery,    \* TaskList: const [searchQuery, setSearchQuery]
    sortBy,         \* TaskList: const [sortBy, setSortBy]
    sortAscending,  \* TaskList: const [sortAscending, setSortAscending]
    store,          \* localStorage: key -> <<>> (no item) or <<text>>
    now,            \* the clock read by Date.now()
    imports,        \* the importFromJSON promises started so far
    exportFile,     \* the last file written by exportToJSON, <<>> if none
    phase,          \* "boot" before App is mounted, "running" after
    writeOk,        \* history: key -> did the last setItem under key succeed
    steps,          \* history: the number of commands the user has issued
    last            \* history: the last handler that ran, with its inputs

vars == <<tasks, isDarkMode, isFocusMode, searchQuery, sortBy, sortAscending,
          store, now, imports, exportFile, phase, writeOk, steps, last>>

-----------------------------------------------------------------------------
(* Bounds of the model                                                     *)

MaxTasks == 3       \* the collection holds at most this many tasks
MaxNow == 3         \* the clock stops advancing here
MaxImports == 1     \* at most this many imports are started
MaxSubtasks == 1    \* a task holds at most this many subtasks
MaxSteps == 2       \* the user issues at most this many commands

-----------------------------------------------------------------------------
(* JavaScript values                                                       *)

None == <<>>
Some(v) == <<v>>

\* obj.key, read as JavaScript reads it: undefined when the key is absent
Get(obj, key) == IF key \in DOMAIN obj THEN obj[key] ELSE None

\* { ...obj, key: value }
Put(obj, key, value) ==
    [k \in (DOMAIN obj) \cup {key} |-> IF k = key THEN value ELSE obj[k]]

\* the keys of a Task that may hold undefined (types/index.ts)
OptionalKeys ==
    {"category", "dueDate", "tags", "subtasks", "recurrence", "order",
     "completedAt"}

\* the keys whose value is not undefined
DefinedKeys(obj) ==
    {k \in DOMAIN obj : k \notin OptionalKeys \/ obj[k] # None}

\* two objects that read the same under every key
SameFields(a, b) ==
    /\ DefinedKeys(a) = DefinedKeys(b)
    /\ \A k \in DefinedKeys(a) : a[k] = b[k]

\* two collections of the same length whose entries read the same, in order
SameCollection(xs, ys) ==
    /\ Len(xs) = Len(ys)
    /\ \A i \in 1..Len(xs) : SameFields(xs[i], ys[i])

\* Array.prototype.findIndex, 0-based, -1 when no element satisfies Test
FindIndex(s, Test(_)) ==
    IF \E i \in 1..Len(s) : Test(s[i])
    THEN (CHOOSE i \in 1..Len(s) :
             Test(s[i]) /\ \A j \in 1..(i - 1) : ~Test(s[j])) - 1
    ELSE -1

Ids(s) == [i \in 1..Len(s) |-> Get(s[i], "id")]

-----------------------------------------------------------------------------
(* Strings                                                                 *)

\* String.prototype.toLowerCase on one character
LowerChar(c) ==
    CASE c = "A" -> "a"
      [] c = "B" -> "b"
      [] OTHER -> c

\* String.prototype.toLowerCase
ToLowerCase(s) == [i \in 1..Len(s) |-> LowerChar(s[i])]

RECURSIVE TrimStart(_)
TrimStart(s) ==
    IF s # <<>> /\ Head(s) = " " THEN TrimStart(Tail(s)) ELSE s

RECURSIVE TrimEnd(_)
TrimEnd(s) ==
    IF s # <<>> /\ s[Len(s)] = " " THEN TrimEnd(SubSeq(s, 1, Len(s) - 1)) ELSE s

\* a trim that removes nothing
NoTrim(s) == s

\* String.prototype.trim
Trim(s) == TrimEnd(TrimStart(s))

\* String.prototype.includes
Includes(s, q) ==
    \E i \in 0..(Len(s) - Len(q)) : SubSeq(s, i + 1, i + Len(q)) = q

\* the primary collation weight of a character: blank before letters,
\* letters in alphabetical order whatever their case
PrimaryWeight(c) ==
    CASE c = " " -> 0
      [] c = "\"" -> 1
      [] LowerChar(c) = "a" -> 2
      [] LowerChar(c) = "b" -> 3
      [] OTHER -> 4

\* the tertiary collation weight: lower case before upper case
TertiaryWeight(c) == IF LowerChar(c) = c THEN 0 ELSE 1

RECURSIVE LexCompare(_, _)
\* lexicographic comparison of two sequences of numbers: -1, 0 or 1
LexCompare(a, b) ==
    IF a = <<>> /\ b = <<>> THEN 0
    ELSE IF a = <<>> THEN -1
    ELSE IF b = <<>> THEN 1
    ELSE IF Head(a) < Head(b) THEN -1
    ELSE IF Head(a) > Head(b) THEN 1
    ELSE LexCompare(Tail(a), Tail(b))

\* String.prototype.localeCompare
LocaleCompare(a, b) ==
    LET p == LexCompare([i \in 1..Len(a) |-> PrimaryWeight(a[i])],
                        [i \in 1..Len(b) |-> PrimaryWeight(b[i])])
    IN  IF p # 0 THEN p
        ELSE LexCompare([i \in 1..Len(a) |-> TertiaryWeight(a[i])],
                        [i \in 1..Len(b) |-> TertiaryWeight(b[i])])

-----------------------------------------------------------------------------
(* The fields of a Task, read as the code reads them                       *)

\* task.completed in a condition
IsCompleted(task) == "completed" \in DOMAIN task /\ task.completed

\* the number read from an optional numeric field; 0 when it is undefined
\* (x || 0)
NumberOr0(task, key) ==
    IF Get(task, key) = None THEN 0 ELSE Get(task, key)[1]

\* !task.dueDate : no due date, or the timestamp 0
NoDueDate(task) == NumberOr0(task, "dueDate") = 0

\* priorityOrder in sortedTasks
PriorityOrder(p) ==
    CASE p = "high" -> 0
      [] p = "medium" -> 1
      [] p = "low" -> 2

-----------------------------------------------------------------------------
(* View engine: TaskList.filteredTasks and TaskList.sortedTasks            *)

SortOptions == {"createdAt", "dueDate", "priority", "alphabetical", "custom"}

\* the predicate of the search filter
MatchesQuery(task, query) ==
    \/ Includes(ToLowerCase(task.text), query)
    \/ /\ Get(task, "category") # None
       /\ Includes(ToLowerCase(task.category[1]), query)
    \/ /\ Get(task, "tags") # None
       /\ \E i \in 1..Len(task.tags[1]) :
              Includes(ToLowerCase(task.tags[1][i]), query)

\* a filter that keeps the completed tasks in focus mode
filteredTasksIgnoringFocus(ts, focus, q) ==
    LET query == ToLowerCase(q)
        Matches(task) == MatchesQuery(task, query)
    IN  IF Trim(q) # <<>> THEN SelectSeq(ts, Matches) ELSE ts

filteredTasks(ts, focus, q) ==
    LET NotCompleted(task) == ~IsCompleted(task)
        result == IF focus THEN SelectSeq(ts, NotCompleted) ELSE ts
        query == ToLowerCase(q)
        Matches(task) == MatchesQuery(task, query)
    IN  IF Trim(q) # <<>> THEN SelectSeq(result, Matches) ELSE result

\* the comparator handed to Array.prototype.sort
Comparison(a, b, by) ==
    CASE by = "createdAt" -> b.createdAt - a.createdAt
      [] by = "dueDate" ->
            IF NoDueDate(a) /\ NoDueDate(b) THEN 0
            ELSE IF NoDueDate(a) THEN 1
            ELSE IF NoDueDate(b) THEN -1
            ELSE a.dueDate[1] - b.dueDate[1]
      [] by = "priority" -> PriorityOrder(a.priority) - PriorityOrder(b.priority)
      [] by = "alphabetical" -> LocaleCompare(a.text, b.text)
      [] by = "custom" -> NumberOr0(a, "order") - NumberOr0(b, "order")

Comparator(a, b, by, asc) ==
    IF asc THEN 0 - Comparison(a, b, by) ELSE Comparison(a, b, by)

RECURSIVE InsertSortedBeforeEqual(_, _, _, _)
\* x placed before the elements that compare equal to it
InsertSortedBeforeEqual(acc, x, by, asc) ==
    IF acc = <<>> \/ Comparator(acc[Len(acc)], x, by, asc) < 0
    THEN Append(acc, x)
    ELSE Append(InsertSortedBeforeEqual(SubSeq(acc, 1, Len(acc) - 1), x, by, asc),
                acc[Len(acc)])

RECURSIVE InsertSorted(_, _, _, _)
\* x placed after every element that does not compare greater than it
InsertSorted(acc, x, by, asc) ==
    IF acc = <<>> \/ Comparator(acc[Len(acc)], x, by, asc) <= 0
    THEN Append(acc, x)
    ELSE Append(InsertSorted(SubSeq(acc, 1, Len(acc) - 1), x, by, asc),
                acc[Len(acc)])

RECURSIVE StableSort(_, _, _)
\* Array.prototype.sort, which is stable
StableSort(s, by, asc) ==
    IF s = <<>> THEN <<>>
    ELSE InsertSorted(StableSort(SubSeq(s, 1, Len(s) - 1), by, asc),
                      s[Len(s)], by, asc)

sortedTasks(ts, focus, q, by, asc) ==
    StableSort(filteredTasks(ts, focus, q), by, asc)

\* what TaskList renders in the current state
Displayed == sortedTasks(tasks, isFocusMode, searchQuery, sortBy, sortAscending)

-----------------------------------------------------------------------------
(* Task repository: the updaters App hands to setTasks                     *)

\* setTasks(prev => [...prev, newTask])
addTask(prev, newTask) == Append(prev, newTask)

\* a toggle that leaves completedAt in place when the task is reopened
ToggledKeepingCompletedAt(task, t) ==
    Put(Put(task, "completed", ~IsCompleted(task)),
        "completedAt", IF ~IsCompleted(task) THEN Some(t)
                       ELSE Get(task, "completedAt"))

\* the entry toggleComplete writes for a task whose id matches
Toggled(task, t) ==
    Put(Put(task, "completed", ~IsCompleted(task)),
        "completedAt", IF ~IsCompleted(task) THEN Some(t) ELSE None)

\* a toggle that does not look at the id
toggleCompleteEvery(prev, taskId, t) ==
    [i \in 1..Len(prev) |-> Toggled(prev[i], t)]

toggleComplete(prev, taskId, t) ==
    [i \in 1..Len(prev) |->
        IF Get(prev[i], "id") = taskId THEN Toggled(prev[i], t) ELSE prev[i]]

\* a delete that also removes the tasks that follow the deleted one
deleteTaskAndFollowing(prev, taskId) ==
    LET hits == {i \in 1..Len(prev) : Get(prev[i], "id") = taskId}
    IN  IF hits = {} THEN prev
        ELSE SubSeq(prev, 1, (CHOOSE i \in hits : \A j \in hits : i <= j) - 1)

deleteTask(prev, taskId) ==
    LET Other(task) == Get(task, "id") # taskId
    IN  SelectSeq(prev, Other)

\* an edit that adds the task when no entry has its id
editTaskUpserting(prev, updatedTask) ==
    IF \E i \in 1..Len(prev) : Get(prev[i], "id") = Get(updatedTask, "id")
    THEN [i \in 1..Len(prev) |->
             IF Get(prev[i], "id") = Get(updatedTask, "id")
             THEN updatedTask ELSE prev[i]]
    ELSE Append(prev, updatedTask)

\* an edit that moves the edited task to the end of the collection
editTaskMovingToEnd(prev, updatedTask) ==
    LET Other(task) == Get(task, "id") # Get(updatedTask, "id")
    IN  IF SelectSeq(prev, Other) = prev THEN prev
        ELSE Append(SelectSeq(prev, Other), updatedTask)

editTask(prev, updatedTask) ==
    [i \in 1..Len(prev) |->
        IF Get(prev[i], "id") = Get(updatedTask, "id")
        THEN updatedTask ELSE prev[i]]

\* new Map(reorderedTasks.map(t => [t.id, t])).get(id): the last entry wins
TaskMapGet(reorderedTasks, id) ==
    LET hits == {i \in 1..Len(reorderedTasks) :
                    Get(reorderedTasks[i], "id") = id}
    IN  IF hits = {} THEN None
        ELSE Some(reorderedTasks[CHOOSE i \in hits : \A j \in hits : j <= i])

\* a reorder that stores the list it is given as the collection
reorderTasksAsListed(prev, reorderedTasks) == reorderedTasks

reorderTasks(prev, reorderedTasks) ==
    [i \in 1..Len(prev) |->
        LET hit == TaskMapGet(reorderedTasks, Get(prev[i], "id"))
        IN  IF hit # None THEN hit[1] ELSE prev[i]]

-----------------------------------------------------------------------------
(* Drag-reorder reconciler: TaskList.handleDragEnd                         *)

\* arrayMove of @dnd-kit/sortable; from and to are 0-based
arrayMove(array, from, to) ==
    LET n == Len(array)
        target == IF to < 0 THEN n + to ELSE to
        start == IF from < 0 THEN (IF n + from < 0 THEN 0 ELSE n + from)
                 ELSE (IF from > n THEN n ELSE from)
        removed == IF start < n THEN <<array[start + 1]>> ELSE <<>>
        rest == [i \in 1..(n - Len(removed)) |->
                    IF i <= start THEN array[i] ELSE array[i + 1]]
        at == IF target > Len(rest) THEN Len(rest) ELSE target
    IN  SubSeq(rest, 1, at) \o removed \o SubSeq(rest, at + 1, Len(rest))

\* newOrder.map((task, index) => ({ ...task, order: index }))
updatedTasks(newOrder) ==
    [i \in 1..Len(newOrder) |-> Put(newOrder[i], "order", Some(i - 1))]

\* the list handleDragEnd hands to reorderTasks
DragResult(shown, activeId, overId) ==
    LET IsActive(task) == Get(task, "id") = activeId
        IsOver(task) == Get(task, "id") = overId
        oldIndex == FindIndex(shown, IsActive)
        newIndex == FindIndex(shown, IsOver)
        newOrder == arrayMove(shown, oldIndex, newIndex)
    IN  updatedTasks(newOrder)

-----------------------------------------------------------------------------
(* Persistent store adapter                                                *)

StoreKeys == {"tasks", "theme", "focusMode"}

\* JSON.stringify of an object: a key holding undefined is left out
StripUndefined(obj) == [k \in DefinedKeys(obj) |-> obj[k]]

\* JSON.stringify of a task collection
StringifyTasks(ts) == [i \in 1..Len(ts) |-> StripUndefined(ts[i])]

\* a stored item: text that parses to value, or text that does not parse
JsonText(value) == [parses |-> TRUE, value |-> value]
CorruptText == [parses |-> FALSE]

\* a loadItem that does not read the store
loadItemAlwaysDefault(st, key, defaultValue, readOk) == defaultValue

\* loadItem(key, defaultValue); readOk is FALSE when localStorage.getItem
\* throws, which loadItem catches like a JSON.parse that throws
loadItem(st, key, defaultValue, readOk) ==
    IF ~readOk THEN defaultValue
    ELSE IF st[key] = None THEN defaultValue
    ELSE IF st[key][1].parses THEN st[key][1].value
    ELSE defaultValue

\* a saveItem that does not overwrite a stored text that does not parse
saveItemKeepingCorrupt(st, key, text, ok) ==
    IF ok /\ ~(st[key] # None /\ ~st[key][1].parses)
    THEN [st EXCEPT ![key] = Some(JsonText(text))]
    ELSE st

\* a saveItem that removes the item when localStorage.setItem throws
saveItemRemovingOnFailure(st, key, text, ok) ==
    IF ok THEN [st EXCEPT ![key] = Some(JsonText(text))]
    ELSE [st EXCEPT ![key] = None]

\* saveItem(key, value), value already stringified; ok is FALSE when
\* localStorage.setItem throws, which saveItem catches
saveItem(st, key, text, ok) ==
    IF ok THEN [st EXCEPT ![key] = Some(JsonText(text))] ELSE st

-----------------------------------------------------------------------------
(* Export/import codec                                                     *)

EXPORT_VERSION == <<"1", ".", "0", ".", "0">>

\* the settings object handleExportJSON builds
Settings(dark, focus) ==
    [theme |-> IF dark THEN "dark" ELSE "light", focusMode |-> focus]

\* A file is text that is not JSON (kind "garbage"), the JSON text null
\* (kind "null"), or the JSON text of an object (kind "object", data the
\* object). The tasks key of the object holds [isArray |-> TRUE, items |-> s]
\* for an array and [isArray |-> FALSE] for any other JSON value.
GarbageFile == [kind |-> "garbage"]
NullFile == [kind |-> "null"]
ObjectFile(data) == [kind |-> "object", data |-> data]
JsonArray(items) == [isArray |-> TRUE, items |-> items]
NotAnArray == [isArray |-> FALSE]

\* the text exportToJSON puts in the downloaded file
exportToJSON(ts, settings, t) ==
    ObjectFile([version |-> EXPORT_VERSION,
                exportedAt |-> t,
                tasks |-> JsonArray(StringifyTasks(ts)),
                settings |-> settings])

\* the milliseconds of a day, scaled down
DayMs == 10

\* one decimal digit as a character
Digit(n) ==
    CASE n = 0 -> "0" [] n = 1 -> "1" [] n = 2 -> "2" [] n = 3 -> "3"
      [] n = 4 -> "4" [] n = 5 -> "5" [] n = 6 -> "6" [] n = 7 -> "7"
      [] n = 8 -> "8" [] n = 9 -> "9"

\* the characters of an id: `task-${Date.now()}-${random}`
IdText(id) == <<"t", "a", "s", "k", "-", Digit(id[1]), "-", Digit(id[2])>>

\* the characters of a priority
PriorityText(p) ==
    CASE p = "high" -> <<"h", "i", "g", "h">>
      [] p = "medium" -> <<"m", "e", "d", "i", "u", "m">>
      [] p = "low" -> <<"l", "o", "w">>

RECURSIVE Join(_, _)
\* Array.prototype.join
Join(parts, sep) ==
    IF parts = <<>> THEN <<>>
    ELSE IF Len(parts) = 1 THEN parts[1]
    ELSE parts[1] \o sep \o Join(Tail(parts), sep)

RECURSIVE ReplaceQuotes(_)
\* text.replace(/"/g, '""')
ReplaceQuotes(text) ==
    IF text = <<>> THEN <<>>
    ELSE IF Head(text) = "\"" THEN <<"\"", "\"">> \o ReplaceQuotes(Tail(text))
    ELSE <<Head(text)>> \o ReplaceQuotes(Tail(text))

\* a text field that is wrapped in quotes without doubling the quotes in it
QuotedTextUnescaped(text) == <<"\"">> \o text \o <<"\"">>

\* `"${task.text.replace(/"/g, '""')}"`
QuotedText(text) == <<"\"">> \o ReplaceQuotes(text) \o <<"\"">>

\* new Date(t).toISOString().split('T')[0], for a day of January 1970
IsoDate(t) ==
    <<"1", "9", "7", "0", "-", "0", "1", "-",
      Digit(((t \div DayMs) + 1) \div 10), Digit(((t \div DayMs) + 1) % 10)>>

\* new Date(t).toISOString()
IsoDateTime(t) ==
    IsoDate(t) \o <<"T", "0", "0", ":", "0", "0", ":", "0", "0", ".", "0", "0",
                    Digit(t % DayMs), "Z">>

\* headers of exportToCSV
CsvHeaders ==
    << <<"I", "D">>, <<"T", "e", "x", "t">>,
       <<"C", "o", "m", "p", "l", "e", "t", "e", "d">>,
       <<"C", "a", "t", "e", "g", "o", "r", "y">>,
       <<"P", "r", "i", "o", "r", "i", "t", "y">>,
       <<"D", "u", "e", " ", "D", "a", "t", "e">>,
       <<"T", "a", "g", "s">>,
       <<"C", "r", "e", "a", "t", "e", "d", " ", "A", "t">> >>

\* one entry of rows in exportToCSV
CsvRow(task) ==
    << IdText(task.id),
       QuotedText(task.text),
       IF IsCompleted(task) THEN <<"Y", "e", "s">> ELSE <<"N", "o">>,
       IF Get(task, "category") = None THEN <<>> ELSE task.category[1],
       PriorityText(task.priority),
       IF NoDueDate(task) THEN <<>> ELSE IsoDate(task.dueDate[1]),
       IF Get(task, "tags") = None THEN <<>>
       ELSE Join(task.tags[1], <<";", " ">>),
       IsoDateTime(task.createdAt) >>

\* the text exportToCSV puts in the downloaded file
exportToCSV(ts) ==
    [kind |-> "csv",
     text |-> Join(<<Join(CsvHeaders, <<",">>)>>
                      \o [i \in 1..Len(ts) |-> Join(CsvRow(ts[i]), <<",">>)],
                   <<"\n">>)]

\* task.priority || 'medium'
PriorityOrMedium(task) ==
    IF "priority" \in DOMAIN task /\ task.priority # ""
    THEN task.priority ELSE "medium"

\* task.createdAt || Date.now()
CreatedAtOrNow(task, t) ==
    IF "createdAt" \in DOMAIN task /\ task.createdAt # 0
    THEN task.createdAt ELSE t

\* one entry of migratedTasks
Migrated(task, t) ==
    Put(Put(task, "priority", PriorityOrMedium(task)),
        "createdAt", CreatedAtOrNow(task, t))

\* a validation that does not look at the version
InvalidExportIgnoringVersion(data) ==
    \/ "tasks" \notin DOMAIN data
    \/ ~data.tasks.isArray

\* !data.version || !Array.isArray(data.tasks)
InvalidExport(data) ==
    \/ "version" \notin DOMAIN data
    \/ data.version = <<>>
    \/ "tasks" \notin DOMAIN data
    \/ ~data.tasks.isArray

\* reader.onload of importFromJSON at time t: the settled promise
importFromJSON(file, t) ==
    IF file.kind # "object" THEN [resolved |-> FALSE]
    ELSE IF InvalidExport(file.data) THEN [resolved |-> FALSE]
    ELSE [resolved |-> TRUE,
          tasks |-> [i \in 1..Len(file.data.tasks.items) |->
                        Migrated(file.data.tasks.items[i], t)],
          settings |-> IF "settings" \in DOMAIN file.data
                       THEN Some(file.data.settings) ELSE None]

-----------------------------------------------------------------------------
(* Inputs of the handlers                                                  *)

\* Math.random().toString(36).slice(2, 9)
RandomSuffixes == {0, 1}

\* an id no task was ever given
UnknownId == <<0, 0>>

\* `task-${Date.now()}-${random}` and `subtask-${Date.now()}-${random}`
NewId(t, r) == <<t, r>>

\* fromDateInputValue: the timestamp of local midnight of the chosen day
fromDateInputValue(value) ==
    IF value = None THEN None ELSE Some(value[1] * DayMs)

\* what the user can have typed in TaskForm when the form is submitted
FormInputs ==
    { [taskText |-> <<>>, category |-> <<>>, priority |-> "medium",
       dueDate |-> None, tags |-> <<>>, showRecurrence |-> FALSE,
       recurrence |-> None],
      [taskText |-> <<" ">>, category |-> <<>>, priority |-> "medium",
       dueDate |-> None, tags |-> <<>>, showRecurrence |-> FALSE,
       recurrence |-> None],
      [taskText |-> <<" ", "B">>, category |-> <<"a", " ">>, priority |-> "high",
       dueDate |-> Some(1), tags |-> << <<"b">> >>, showRecurrence |-> TRUE,
       recurrence |-> Some([pattern |-> "daily", interval |-> 1])] }

\* what the user can have typed in the edit form of a TaskItem
EditInputs ==
    { [editedText |-> <<" ">>, editedCategory |-> <<>>,
       editedPriority |-> "medium", editedDueDate |-> None],
      [editedText |-> <<"b", " ">>, editedCategory |-> <<"a">>,
       editedPriority |-> "low", editedDueDate |-> Some(2)] }

\* the Task handleSubmit builds
NewTask(form, t, r) ==
    [id |-> NewId(t, r),
     text |-> Trim(form.taskText),
     completed |-> FALSE,
     category |-> IF Trim(form.category) # <<>>
                  THEN Some(Trim(form.category)) ELSE None,
     priority |-> form.priority,
     createdAt |-> t,
     dueDate |-> fromDateInputValue(form.dueDate),
     tags |-> IF Len(form.tags) > 0 THEN Some(form.tags) ELSE None,
     recurrence |-> IF form.showRecurrence THEN form.recurrence ELSE None,
     order |-> Some(t)]

\* an edit that stores the text as it was typed
EditedTaskUntrimmed(task, edit) ==
    Put(Put(Put(Put(task,
        "text", edit.editedText),
        "category", IF Trim(edit.editedCategory) # <<>>
                    THEN Some(Trim(edit.editedCategory)) ELSE None),
        "priority", edit.editedPriority),
        "dueDate", fromDateInputValue(edit.editedDueDate))

\* an edit that also drops the completion time
EditedTaskWithoutCompletedAt(task, edit) ==
    Put(Put(Put(Put(Put(task,
        "text", Trim(edit.editedText)),
        "category", IF Trim(edit.editedCategory) # <<>>
                    THEN Some(Trim(edit.editedCategory)) ELSE None),
        "priority", edit.editedPriority),
        "dueDate", fromDateInputValue(edit.editedDueDate)),
        "completedAt", None)

\* the Task handleSaveEdit builds
EditedTask(task, edit) ==
    Put(Put(Put(Put(task,
        "text", Trim(edit.editedText)),
        "category", IF Trim(edit.editedCategory) # <<>>
                    THEN Some(Trim(edit.editedCategory)) ELSE None),
        "priority", edit.editedPriority),
        "dueDate", fromDateInputValue(edit.editedDueDate))

-----------------------------------------------------------------------------
(* History and effects                                                     *)

\* the record kept of the handler that just ran: its name, the id and the
\* other input it was given. chain counts the calls of toggleComplete made in
\* a row on the same id (at most 2 are remembered) and pre0 is the
\* collection before the first call of the chain.
Hist(op, id, arg) ==
    LET chained == /\ op = "toggleComplete"
                   /\ last.op = "toggleComplete"
                   /\ last.id = id
    IN  [op |-> op, id |-> id, arg |-> arg,
         chain |-> IF chained THEN 2 ELSE 1,
         pre0 |-> IF op # "toggleComplete" THEN <<>>
                  ELSE IF chained THEN last.pre1 ELSE tasks,
         pre1 |-> IF op # "toggleComplete" THEN <<>> ELSE tasks]

\* every import being read has seen the collection change
DirtyAll(reading) ==
    [i \in 1..Len(reading) |-> [reading[i] EXCEPT !.dirty = TRUE]]

Dirtied(imp) == [imp EXCEPT !.reading = DirtyAll(@)]

\* a persist effect that does not run when the collection is empty
PersistTasksUnlessEmpty(st, ts, ok) ==
    IF ts = <<>> THEN st ELSE saveItem(st, "tasks", StringifyTasks(ts), ok)

\* useEffect(() => saveItem('tasks', tasks), [tasks]) after setTasks(ts)
PersistTasks(st, ts, ok) == saveItem(st, "tasks", StringifyTasks(ts), ok)

\* the effect on [isDarkMode], which runs when the value changed
PersistTheme(st, dark, changed, ok) ==
    IF changed THEN saveItem(st, "theme", IF dark THEN "dark" ELSE "light", ok)
    ELSE st

\* a focus effect that also stores an empty collection under the tasks key
PersistFocusModeAndTasks(st, focus, changed, ok) ==
    IF changed
    THEN saveItem(saveItem(st, "focusMode", focus, ok), "tasks", <<>>, ok)
    ELSE st

\* the effect on [isFocusMode], which runs when the value changed
PersistFocusMode(st, focus, changed, ok) ==
    IF changed THEN saveItem(st, "focusMode", focus, ok) ELSE st

\* setTasks(ts) followed by the persist effect; ok is the outcome of setItem
SetTasks(ts, ok) ==
    /\ tasks' = ts
    /\ store' = PersistTasks(store, ts, ok)
    /\ writeOk' = [writeOk EXCEPT !["tasks"] = ok]
    /\ imports' = Dirtied(imports)

\* the state the three persist effects leave after a render in which
\* setTasks was called; oks gives the outcome of setItem under each key
AfterEffects(ts, dark, focus, oks) ==
    /\ store' = PersistFocusMode(
                    PersistTheme(PersistTasks(store, ts, oks["tasks"]),
                                 dark, dark # isDarkMode, oks["theme"]),
                    focus, focus # isFocusMode, oks["focusMode"])
    /\ writeOk' = [k \in StoreKeys |->
                     CASE k = "tasks" -> oks[k]
                       [] k = "theme" ->
                            IF dark # isDarkMode THEN oks[k] ELSE writeOk[k]
                       [] k = "focusMode" ->
                            IF focus # isFocusMode THEN oks[k] ELSE writeOk[k]]

-----------------------------------------------------------------------------
(* The handlers of the running application                                 *)

TaskIds == {Get(tasks[i], "id") : i \in 1..Len(tasks)}

\* tasks.find(t => t.id === taskId)
FindTask(taskId) ==
    LET hits == {i \in 1..Len(tasks) : Get(tasks[i], "id") = taskId}
    IN  IF hits = {} THEN None
        ELSE Some(tasks[CHOOSE i \in hits : \A j \in hits : i <= j])

\* task.subtasks || []
SubtasksOf(task) ==
    IF Get(task, "subtasks") = None THEN <<>> ELSE task.subtasks[1]

\* one more command of the user is handled
Command == steps < MaxSteps /\ steps' = steps + 1

\* the clock advances
Tick ==
    /\ now < MaxNow
    /\ now' = now + 1
    /\ UNCHANGED <<steps, tasks, isDarkMode, isFocusMode, searchQuery, sortBy,
                   sortAscending, store, imports, exportFile, phase,
                   writeOk, last>>

\* TaskForm.handleSubmit, then App.addTask and the persist effect
SubmitTask(outcomes) ==
    /\ phase = "running"
    /\ Command
    /\ Len(tasks) < MaxTasks
    /\ \E form \in FormInputs, r \in RandomSuffixes, ok \in outcomes :
          IF Trim(form.taskText) = <<>>
          THEN /\ last' = Hist("submitRejected", None, form)
               /\ UNCHANGED <<tasks, store, writeOk, imports>>
          ELSE /\ SetTasks(addTask(tasks, NewTask(form, now, r)), ok)
               /\ last' = Hist("addTask", NewId(now, r), form)
    /\ UNCHANGED <<isDarkMode, isFocusMode, searchQuery, sortBy,
                   sortAscending, now, exportFile, phase>>

\* App.toggleComplete and the persist effect
ToggleComplete(outcomes) ==
    /\ phase = "running"
    /\ Command
    /\ \E taskId \in TaskIds \cup {UnknownId}, ok \in outcomes :
          /\ SetTasks(toggleComplete(tasks, taskId, now), ok)
          /\ last' = Hist("toggleComplete", taskId, None)
    /\ UNCHANGED <<isDarkMode, isFocusMode, searchQuery, sortBy,
                   sortAscending, now, exportFile, phase>>

\* App.deleteTask and the persist effect
DeleteTask(outcomes) ==
    /\ phase = "running"
    /\ Command
    /\ \E taskId \in TaskIds \cup {UnknownId}, ok \in outcomes :
          /\ SetTasks(deleteTask(tasks, taskId), ok)
          /\ last' = Hist("deleteTask", taskId, None)
    /\ UNCHANGED <<isDarkMode, isFocusMode, searchQuery, sortBy,
                   sortAscending, now, exportFile, phase>>

\* TaskItem.handleSaveEdit on a displayed task, then App.editTask and the
\* persist effect
SaveEdit(outcomes) ==
    /\ phase = "running"
    /\ Command
    /\ \E i \in 1..Len(Displayed), edit \in EditInputs, ok \in outcomes :
          LET task == Displayed[i] IN
          IF Trim(edit.editedText) = <<>>
          THEN /\ last' = Hist("editRejected", Get(task, "id"), edit)
               /\ UNCHANGED <<tasks, store, writeOk, imports>>
          ELSE /\ SetTasks(editTask(tasks, EditedTask(task, edit)), ok)
               /\ last' = Hist("editTask", Get(task, "id"),
                               EditedTask(task, edit))
    /\ UNCHANGED <<isDarkMode, isFocusMode, searchQuery, sortBy,
                   sortAscending, now, exportFile, phase>>

\* TaskItem.handleAddSubtask, then TaskList.handleAddSubtask, App.editTask
\* and the persist effect; the parent is a displayed task, or UnknownId when
\* it is not in the collection any more
AddSubtask(outcomes) ==
    /\ phase = "running"
    /\ Command
    /\ \E taskId \in {Get(Displayed[i], "id") : i \in 1..Len(Displayed)}
                         \cup {UnknownId},
          text \in {<<" ">>, <<"a", " ">>},
          r \in RandomSuffixes, ok \in outcomes :
          LET found == FindTask(taskId)
              subtask == [id |-> NewId(now, r), text |-> Trim(text),
                          completed |-> FALSE, createdAt |-> now]
          IN  IF Trim(text) = <<>>
              THEN /\ last' = Hist("subtaskRejected", taskId, text)
                   /\ UNCHANGED <<tasks, store, writeOk, imports>>
              ELSE IF found = None
              THEN /\ last' = Hist("subtaskMiss", taskId, subtask.id)
                   /\ UNCHANGED <<tasks, store, writeOk, imports>>
              ELSE /\ Len(SubtasksOf(found[1])) < MaxSubtasks
                   /\ SetTasks(editTask(tasks,
                          Put(found[1], "subtasks",
                              Some(Append(SubtasksOf(found[1]), subtask)))), ok)
                   /\ last' = Hist("addSubtask", taskId, subtask)
    /\ UNCHANGED <<isDarkMode, isFocusMode, searchQuery, sortBy,
                   sortAscending, now, exportFile, phase>>

\* a toggle that flips every subtask
ToggledSubtasksAll(subtasks, subtaskId) ==
    [k \in 1..Len(subtasks) |->
        [subtasks[k] EXCEPT !.completed = ~subtasks[k].completed]]

\* updatedSubtasks of handleToggleSubtask
ToggledSubtasks(subtasks, subtaskId) ==
    [k \in 1..Len(subtasks) |->
        IF subtasks[k].id = subtaskId
        THEN [subtasks[k] EXCEPT !.completed = ~subtasks[k].completed]
        ELSE subtasks[k]]

\* TaskList.handleToggleSubtask, then App.editTask and the persist effect
ToggleSubtask(outcomes) ==
    /\ phase = "running"
    /\ Command
    /\ \E taskId \in TaskIds \cup {UnknownId},
          subtaskId \in {NewId(t, r) : t \in 1..MaxNow, r \in RandomSuffixes},
          ok \in outcomes :
          LET found == FindTask(taskId) IN
          IF found = None \/ Get(found[1], "subtasks") = None
          THEN /\ last' = Hist("subtaskMiss", taskId, subtaskId)
               /\ UNCHANGED <<tasks, store, writeOk, imports>>
          ELSE LET task == found[1]
                   updatedSubtasks ==
                       ToggledSubtasks(task.subtasks[1], subtaskId)
               IN  /\ SetTasks(editTask(tasks,
                           Put(task, "subtasks", Some(updatedSubtasks))), ok)
                   /\ last' = Hist("toggleSubtask", taskId, subtaskId)
    /\ UNCHANGED <<isDarkMode, isFocusMode, searchQuery, sortBy,
                   sortAscending, now, exportFile, phase>>

\* TaskList.handleDeleteSubtask, then App.editTask and the persist effect
DeleteSubtask(outcomes) ==
    /\ phase = "running"
    /\ Command
    /\ \E taskId \in TaskIds \cup {UnknownId},
          subtaskId \in {NewId(t, r) : t \in 1..MaxNow, r \in RandomSuffixes},
          ok \in outcomes :
          LET found == FindTask(taskId) IN
          IF found = None \/ Get(found[1], "subtasks") = None
          THEN /\ last' = Hist("subtaskMiss", taskId, subtaskId)
               /\ UNCHANGED <<tasks, store, writeOk, imports>>
          ELSE LET task == found[1]
                   Other(sub) == sub.id # subtaskId
                   updatedSubtasks == SelectSeq(task.subtasks[1], Other)
               IN  /\ SetTasks(editTask(tasks,
                           Put(task, "subtasks", Some(updatedSubtasks))), ok)
                   /\ last' = Hist("deleteSubtask", taskId, subtaskId)
    /\ UNCHANGED <<isDarkMode, isFocusMode, searchQuery, sortBy,
                   sortAscending, now, exportFile, phase>>

\* TaskList.handleDragEnd, then App.reorderTasks, the persist effect and
\* setSortBy('custom'); over is None when the item is dropped outside, and
\* an endpoint is UnknownId when its task is not displayed any more
DragEnd(outcomes) ==
    /\ phase = "running"
    /\ Command
    /\ \E activeId \in {Get(Displayed[i], "id") : i \in 1..Len(Displayed)}
                           \cup {UnknownId},
          over \in {None} \cup {Some(id) : id \in
                       {Get(Displayed[i], "id") : i \in 1..Len(Displayed)}
                       \cup {UnknownId}},
          ok \in outcomes :
          IF over # None /\ activeId # over[1]
          THEN /\ SetTasks(reorderTasks(tasks,
                              DragResult(Displayed, activeId, over[1])), ok)
               /\ sortBy' = "custom"
               /\ last' = Hist("dragEnd", activeId, over)
          ELSE /\ last' = Hist("dragIgnored", activeId, over)
               /\ UNCHANGED <<tasks, store, writeOk, imports, sortBy>>
    /\ UNCHANGED <<isDarkMode, isFocusMode, searchQuery, sortAscending, now,
                   exportFile, phase>>

\* the search box of TaskList
SetSearchQuery(queries) ==
    /\ phase = "running"
    /\ Command
    /\ \E q \in queries :
          /\ q # searchQuery
          /\ searchQuery' = q
          /\ last' = Hist("setSearchQuery", None, q)
    /\ UNCHANGED <<tasks, isDarkMode, isFocusMode, sortBy, sortAscending,
                   store, now, imports, exportFile, phase, writeOk>>

\* the sort selector of TaskList
SetSortBy ==
    /\ phase = "running"
    /\ Command
    /\ \E by \in SortOptions :
          /\ by # sortBy
          /\ sortBy' = by
          /\ last' = Hist("setSortBy", None, by)
    /\ UNCHANGED <<tasks, isDarkMode, isFocusMode, searchQuery, sortAscending,
                   store, now, imports, exportFile, phase, writeOk>>

\* the sort direction button of TaskList
SetSortAscending ==
    /\ phase = "running"
    /\ Command
    /\ sortAscending' = ~sortAscending
    /\ last' = Hist("setSortAscending", None, ~sortAscending)
    /\ UNCHANGED <<tasks, isDarkMode, isFocusMode, searchQuery, sortBy,
                   store, now, imports, exportFile, phase, writeOk>>

\* App.toggleDarkMode and the persist effect on [isDarkMode]
ToggleDarkMode(outcomes) ==
    /\ phase = "running"
    /\ Command
    /\ \E ok \in outcomes :
          /\ isDarkMode' = ~isDarkMode
          /\ store' = PersistTheme(store, ~isDarkMode, TRUE, ok)
          /\ writeOk' = [writeOk EXCEPT !["theme"] = ok]
    /\ last' = Hist("toggleDarkMode", None, None)
    /\ UNCHANGED <<tasks, isFocusMode, searchQuery, sortBy, sortAscending,
                   now, imports, exportFile, phase>>

\* App.toggleFocusMode and the persist effect on [isFocusMode]
ToggleFocusMode(outcomes) ==
    /\ phase = "running"
    /\ Command
    /\ \E ok \in outcomes :
          /\ isFocusMode' = ~isFocusMode
          /\ store' = PersistFocusMode(store, ~isFocusMode, TRUE, ok)
          /\ writeOk' = [writeOk EXCEPT !["focusMode"] = ok]
    /\ last' = Hist("toggleFocusMode", None, None)
    /\ UNCHANGED <<tasks, isDarkMode, searchQuery, sortBy, sortAscending,
                   now, imports, exportFile, phase>>

\* App.handleExportJSON
ExportJSON ==
    /\ phase = "running"
    /\ Command
    /\ exportFile' = Some(exportToJSON(tasks,
                              Settings(isDarkMode, isFocusMode), now))
    /\ last' = Hist("exportJSON", None, None)
    /\ UNCHANGED <<tasks, isDarkMode, isFocusMode, searchQuery, sortBy,
                   sortAscending, store, now, imports, phase, writeOk>>

\* App.handleExportCSV
ExportCSV ==
    /\ phase = "running"
    /\ Command
    /\ exportFile' = Some(exportToCSV(tasks))
    /\ last' = Hist("exportCSV", None, None)
    /\ UNCHANGED <<tasks, isDarkMode, isFocusMode, searchQuery, sortBy,
                   sortAscending, store, now, imports, phase, writeOk>>

\* App.handleImport up to the await: reader.readAsText(file) is started
StartImport(files) ==
    /\ phase = "running"
    /\ Command
    /\ imports.started < MaxImports
    /\ \E file \in files :
          /\ imports' = [imports EXCEPT
                            !.reading = Append(@, [file |-> file,
                                                   dirty |-> FALSE]),
                            !.started = @ + 1]
          /\ last' = Hist("startImport", None, file)
    /\ UNCHANGED <<tasks, isDarkMode, isFocusMode, searchQuery, sortBy,
                   sortAscending, store, now, exportFile, phase, writeOk>>

\* an import that appends the imported tasks to the current collection
MergedOnImport(prev, data) == prev \o data.tasks

\* setTasks(data.tasks) in App.handleImport
ReplacedOnImport(prev, data) == data.tasks

\* the reading list without its k-th entry
WithoutReading(k) ==
    [j \in 1..(Len(imports.reading) - 1) |->
        IF j < k THEN imports.reading[j] ELSE imports.reading[j + 1]]

\* reader.onload of importFromJSON, then the rest of App.handleImport and
\* the persist effects
ImportLoaded(outcomes) ==
    /\ phase = "running"
    /\ \E k \in 1..Len(imports.reading), oks \in [StoreKeys -> outcomes] :
          LET read == imports.reading[k]
              data == importFromJSON(read.file, now)
          IN  IF data.resolved
              THEN LET dark == IF data.settings # None
                               THEN data.settings[1].theme = "dark"
                               ELSE isDarkMode
                       focus == IF data.settings # None
                                THEN data.settings[1].focusMode
                                ELSE isFocusMode
                       imported == ReplacedOnImport(tasks, data)
                   IN  /\ tasks' = imported
                       /\ isDarkMode' = dark
                       /\ isFocusMode' = focus
                       /\ AfterEffects(imported, dark, focus, oks)
                       /\ imports' = [imports EXCEPT
                                         !.reading = DirtyAll(WithoutReading(k)),
                                         !.resolved = @ + 1]
                       /\ last' = Hist("importResolved", None, read)
              ELSE /\ imports' = [imports EXCEPT
                                     !.reading = WithoutReading(k),
                                     !.rejected = @ + 1]
                   /\ last' = Hist("importRejected", None, read)
                   /\ UNCHANGED <<tasks, isDarkMode, isFocusMode, store,
                                  writeOk>>
    /\ UNCHANGED <<steps, searchQuery, sortBy, sortAscending, now, exportFile, phase>>

\* reader.onerror of importFromJSON, then the catch of App.handleImport
ImportReadError ==
    /\ phase = "running"
    /\ \E k \in 1..Len(imports.reading) :
          /\ imports' = [imports EXCEPT
                            !.reading = WithoutReading(k),
                            !.rejected = @ + 1]
          /\ last' = Hist("importReadError", None, imports.reading[k])
    /\ UNCHANGED <<steps, tasks, isDarkMode, isFocusMode, searchQuery, sortBy,
                   sortAscending, store, now, exportFile, phase, writeOk>>

\* App is mounted: the three lazy initial states are loaded, then the three
\* persist effects run; reads gives the outcomes of localStorage.getItem
Mount(outcomes, reads) ==
    /\ phase = "boot"
    /\ phase' = "running"
    /\ \E oks \in [StoreKeys -> outcomes], rs \in [StoreKeys -> reads] :
          LET loaded == loadItem(store, "tasks", <<>>, rs["tasks"])
              dark == loadItem(store, "theme", "light", rs["theme"]) = "dark"
              focus == loadItem(store, "focusMode", FALSE, rs["focusMode"])
          IN  /\ tasks' = loaded
              /\ isDarkMode' = dark
              /\ isFocusMode' = focus
              /\ store' = saveItem(saveItem(saveItem(store,
                              "tasks", StringifyTasks(loaded), oks["tasks"]),
                              "theme", IF dark THEN "dark" ELSE "light",
                              oks["theme"]),
                              "focusMode", focus, oks["focusMode"])
              /\ writeOk' = oks
              /\ last' = Hist("mount", None, [store |-> store, reads |-> rs])
    /\ UNCHANGED <<steps, searchQuery, sortBy, sortAscending, now, imports,
                   exportFile>>

\* the page is reloaded: the state of App and TaskList is lost, the store
\* is kept, and App will be mounted again
Reload ==
    /\ phase = "running"
    /\ Command
    /\ phase' = "boot"
    /\ tasks' = <<>>
    /\ isDarkMode' = FALSE
    /\ isFocusMode' = FALSE
    /\ searchQuery' = <<>>
    /\ sortBy' = "createdAt"
    /\ sortAscending' = FALSE
    /\ imports' = [reading |-> <<>>, started |-> 0, resolved |-> 0,
                   rejected |-> 0]
    /\ exportFile' = None
    /\ last' = Hist("reload", None,
                    [tasks |-> tasks, isDarkMode |-> isDarkMode,
                     isFocusMode |-> isFocusMode])
    /\ UNCHANGED <<store, now, writeOk>>

-----------------------------------------------------------------------------
(* The application, from the moment the page is opened                     *)

\* the tasks left in the store by an earlier session, which created both at
\* time 1, completed the first and gave the second a subtask
PlainForm ==
    [taskText |-> <<"a">>, category |-> <<>>, priority |-> "low",
     dueDate |-> None, tags |-> <<>>, showRecurrence |-> FALSE,
     recurrence |-> None]

StoredTasks ==
    StringifyTasks(<<
        Toggled(NewTask(PlainForm, 1, 0), 1),
        Put(NewTask(PlainForm, 1, 1), "subtasks",
            Some(<<[id |-> NewId(1, 0), text |-> <<"a">>,
                    completed |-> FALSE, createdAt |-> 1]>>)) >>)

\* what localStorage can hold when the page is opened
InitialStores ==
    { [k \in StoreKeys |-> None],
      [tasks |-> Some(CorruptText), theme |-> Some(JsonText("dark")),
       focusMode |-> Some(JsonText(TRUE))],
      [tasks |-> Some(JsonText(StoredTasks)), theme |-> None,
       focusMode |-> None] }

\* the files the user picks in the import dialog
LegacyTask == [id |-> NewId(0, 1), text |-> <<"a">>]

MainFiles ==
    { GarbageFile,
      ObjectFile([version |-> EXPORT_VERSION, tasks |-> JsonArray(<<>>)]),
      ObjectFile([version |-> EXPORT_VERSION,
                  tasks |-> JsonArray(<<LegacyTask, LegacyTask>>),
                  settings |-> Settings(TRUE, TRUE)]) }

NoImports == [reading |-> <<>>, started |-> 0, resolved |-> 0, rejected |-> 0]

NoHistory ==
    [op |-> "none", id |-> None, arg |-> None, chain |-> 1, pre0 |-> <<>>,
     pre1 |-> <<>>]

Init ==
    /\ phase = "boot"
    /\ store \in InitialStores
    /\ tasks = <<>>
    /\ isDarkMode = FALSE
    /\ isFocusMode = FALSE
    /\ searchQuery = <<>>
    /\ sortBy = "createdAt"
    /\ sortAscending = FALSE
    /\ now = 2
    /\ imports = NoImports
    /\ exportFile = None
    /\ writeOk = [k \in StoreKeys |-> TRUE]
    /\ steps = 0
    /\ last = NoHistory

\* localStorage.setItem does not throw
WritesSucceed == {TRUE}

\* localStorage.getItem does not throw
ReadsSucceed == {TRUE}

Next ==
    \/ Mount(WritesSucceed, ReadsSucceed)
    \/ Tick
    \/ SubmitTask(WritesSucceed)
    \/ ToggleComplete(WritesSucceed)
    \/ DeleteTask(WritesSucceed)
    \/ SaveEdit(WritesSucceed)
    \/ AddSubtask(WritesSucceed)
    \/ ToggleSubtask(WritesSucceed)
    \/ DeleteSubtask(WritesSucceed)
    \/ DragEnd(WritesSucceed)
    \/ ToggleFocusMode(WritesSucceed)
    \/ StartImport(MainFiles)
    \/ ImportLoaded(WritesSucceed)
    \/ ImportReadError

Spec == Init /\ [][Next]_vars

-----------------------------------------------------------------------------
(* Claims about the task repository, the import and the persistence        *)

\* the second of two calls of toggleComplete made in a row on one id has
\* just run
ToggledTwice == last.op = "toggleComplete" /\ last.chain = 2

\* C4 as stated. Idempotent toggle: after toggleComplete(id) was called twice
\* in a row, every task with that id has the completed and the completedAt
\* it had before the first call.
ToggleTwiceRestores ==
    ToggledTwice =>
        \A i \in 1..Len(tasks) :
            Get(tasks[i], "id") = last.id =>
                /\ IsCompleted(tasks[i]) = IsCompleted(last.pre0[i])
                /\ Get(tasks[i], "completedAt")
                      = Get(last.pre0[i], "completedAt")

\* C4 as amended. The second of two calls of toggleComplete(id) made in a
\* row leaves every task with that id with the completed it had before the
\* first call; a task that was not completed then ends without completedAt,
\* and a task that was completed ends with completedAt equal to the time of
\* the second call.
ToggleTwiceRestoresCompleted ==
    [][(last'.op = "toggleComplete" /\ last'.chain = 2 /\ steps' = steps + 1)
       => \A i \in 1..Len(tasks') :
             Get(tasks'[i], "id") = last'.id =>
                /\ IsCompleted(tasks'[i]) = IsCompleted(last'.pre0[i])
                /\ Get(tasks'[i], "completedAt")
                      = IF IsCompleted(last'.pre0[i]) THEN Some(now)
                        ELSE None]_vars

\* a task that was completed has been toggled twice in a row and now
\* carries another completedAt than before
ToggledTwiceWitness ==
    /\ ToggledTwice
    /\ \E i \in 1..Len(tasks) :
          /\ Get(tasks[i], "id") = last.id
          /\ IsCompleted(last.pre0[i])
          /\ Get(tasks[i], "completedAt") # Get(last.pre0[i], "completedAt")

\* C6. Id uniqueness: no two tasks of the canonical collection have the
\* same id, in any state reached by adds, edits, toggles, deletes, reorders,
\* subtask operations and successful imports.
IdUniqueness ==
    phase = "running" =>
        \A i, j \in 1..Len(tasks) :
            i # j => Get(tasks[i], "id") # Get(tasks[j], "id")

\* the tasks array of the file of an import
ItemsOf(read) == read.file.data.tasks.items

\* C9. Import is a full replace, also under interleaving: the step in which
\* an import resolves leaves in the collection exactly the tasks of the
\* file, in file order, each with the keys of the file (priority and
\* createdAt added) and their values, whatever the collection held and
\* whatever was done since the read began; and every import that was started
\* is still being read, or was resolved, or was rejected, never two of these.
ImportReplaces ==
    [][/\ (last'.op = "importResolved"
             /\ imports'.resolved = imports.resolved + 1)
           => /\ Len(tasks') = Len(ItemsOf(last'.arg))
              /\ \A i \in 1..Len(tasks') :
                    /\ DOMAIN tasks'[i] = DOMAIN ItemsOf(last'.arg)[i]
                                             \cup {"priority", "createdAt"}
                    /\ \A k \in DOMAIN ItemsOf(last'.arg)[i]
                                   \ {"priority", "createdAt"} :
                          tasks'[i][k] = ItemsOf(last'.arg)[i][k]
       /\ imports'.started
             = Len(imports'.reading) + imports'.resolved + imports'.rejected
       /\ imports'.resolved + imports'.rejected
             <= imports.resolved + imports.rejected + 1
       /\ Len(imports'.reading) < Len(imports.reading)
             => imports'.resolved + imports'.rejected
                   = imports.resolved + imports.rejected + 1]_vars

\* an import of a file with tasks has resolved after the collection, which
\* was not empty, was changed while the file was being read
ImportReplacesWitness ==
    /\ last.op = "importResolved"
    /\ last.arg.dirty
    /\ tasks # <<>>
    /\ steps >= 2

\* C10. Write-through persistence: while the writes to the store succeed,
\* the text stored under the tasks key parses to a collection that reads
\* the same as the collection in memory, after every operation.
WriteThrough ==
    (phase = "running" /\ writeOk["tasks"]) =>
        /\ store["tasks"] # None
        /\ store["tasks"][1].parses
        /\ SameCollection(store["tasks"][1].value, tasks)

\* a collection some entry of which holds an undefined field was saved
WriteThroughWitness ==
    /\ phase = "running"
    /\ last.op \in {"toggleComplete", "deleteSubtask", "dragEnd", "editTask"}
    /\ \E i \in 1..Len(tasks) : DefinedKeys(tasks[i]) # DOMAIN tasks[i]
    /\ store["tasks"] # None

\* C19. toggleComplete(id) negates completed on every task with that id,
\* sets its completedAt to the current time when it becomes completed and
\* to undefined when it becomes not completed, and leaves its other fields,
\* the other tasks, the length and the order of the collection as they
\* were; with an id that no task has, the collection reads as before.
ToggleFrame ==
    [][(steps' = steps + 1 /\ last'.op = "toggleComplete")
       => /\ Len(tasks') = Len(tasks)
          /\ \A i \in 1..Len(tasks) :
                IF Get(tasks[i], "id") # last'.id THEN tasks'[i] = tasks[i]
                ELSE /\ IsCompleted(tasks'[i]) = ~IsCompleted(tasks[i])
                     /\ Get(tasks'[i], "completedAt")
                           = IF IsCompleted(tasks'[i]) THEN Some(now) ELSE None
                     /\ DOMAIN tasks'[i]
                           = DOMAIN tasks[i] \cup {"completed", "completedAt"}
                     /\ \A key \in DOMAIN tasks[i]
                                    \ {"completed", "completedAt"} :
                           tasks'[i][key] = tasks[i][key]]_vars

\* a task that holds a subtask was completed by a toggle, in a collection
\* of two tasks
ToggleFrameWitness ==
    /\ last.op = "toggleComplete"
    /\ Len(tasks) >= 2
    /\ \E i \in 1..Len(tasks) :
          /\ Get(tasks[i], "id") = last.id
          /\ IsCompleted(tasks[i])
          /\ Get(tasks[i], "completedAt") # None
          /\ Get(tasks[i], "subtasks") # None

\* every task has a completedAt exactly when it is completed
CompletedAtConsistent(ts) ==
    \A i \in 1..Len(ts) :
        (Get(ts[i], "completedAt") # None) <=> IsCompleted(ts[i])

\* C20. completedAt consistency is preserved: from a collection in which
\* every task has a completedAt exactly when it is completed, an add, a
\* toggle, a save of the edit form, a subtask add, toggle or delete, a
\* delete and a drag reorder lead to a collection of which the same is true.
CompletedAtPreserved ==
    [][(/\ steps' = steps + 1
        /\ last'.op \in {"addTask", "toggleComplete", "editTask",
                         "addSubtask", "toggleSubtask", "deleteSubtask",
                         "deleteTask", "dragEnd"}
        /\ CompletedAtConsistent(tasks))
       => CompletedAtConsistent(tasks')]_vars

\* the edit form of a completed task was saved and the task still has its
\* completedAt
CompletedAtPreservedWitness ==
    /\ last.op = "editTask"
    /\ \E i \in 1..Len(tasks) :
          /\ Get(tasks[i], "id") = last.id
          /\ IsCompleted(tasks[i])
          /\ Get(tasks[i], "completedAt") # None
          /\ tasks[i].text = <<"b">>

\* a text made of blanks only, the empty text included
AllBlank(text) == \A i \in 1..Len(text) : text[i] = " "

\* C13. Blank add is rejected: a submit of the task form whose text is
\* empty or made of blanks only leaves the collection and the store as they
\* were.
BlankAddRejected ==
    [][(/\ steps' = steps + 1
        /\ last'.op \in {"submitRejected", "addTask"}
        /\ AllBlank(last'.arg.taskText))
       => /\ last'.op = "submitRejected"
          /\ tasks' = tasks
          /\ store' = store]_vars

\* a form holding one blank was submitted while the collection held tasks
BlankAddRejectedWitness ==
    /\ last.op = "submitRejected"
    /\ last.arg.taskText = <<" ">>
    /\ tasks # <<>>
    /\ store["tasks"] # None

\* the id and the createdAt of every task, in collection order
Identities(ts) == [i \in 1..Len(ts) |-> <<Get(ts[i], "id"), ts[i].createdAt>>]

\* a sequence without its k-th entry
WithoutEntry(s, k) ==
    [j \in 1..(Len(s) - 1) |-> IF j < k THEN s[j] ELSE s[j + 1]]

\* C21. Stable identity: a save of the edit form, a toggle, a subtask add,
\* toggle or delete and a drag reorder leave the id and the createdAt of
\* every task and the order of the tasks in the collection as they were; an
\* add leaves them so for the tasks that were there, the added task being
\* the only new entry; a delete leaves them so for every task that has
\* another id than the deleted one, and removes no such task.
StableIdentity ==
    [][(steps' = steps + 1)
       => /\ last'.op \in {"editTask", "editRejected", "toggleComplete",
                           "addSubtask", "subtaskRejected", "toggleSubtask",
                           "deleteSubtask", "subtaskMiss", "dragEnd",
                           "dragIgnored", "submitRejected"}
             => Identities(tasks') = Identities(tasks)
          /\ last'.op = "addTask"
             => /\ Len(tasks') = Len(tasks) + 1
                /\ \E k \in 1..Len(tasks') :
                      /\ Identities(WithoutEntry(tasks', k)) = Identities(tasks)
                      /\ Get(tasks'[k], "id") = last'.id
          /\ last'.op = "deleteTask"
             => LET Kept(identity) == identity[1] # last'.id
                IN  Identities(tasks') = SelectSeq(Identities(tasks), Kept)]_vars

\* the edit form of the second of two tasks was saved: the task has its new
\* text and is still the second
StableIdentityWitness ==
    /\ last.op = "editTask"
    /\ Len(tasks) = 2
    /\ Get(tasks[2], "id") = last.id
    /\ Get(tasks[1], "id") # last.id
    /\ tasks[2].text = <<"b">>

\* what TaskList renders after the step
DisplayedAfter ==
    sortedTasks(tasks', isFocusMode', searchQuery', sortBy', sortAscending')

\* C23. deleteTask(id) removes every task with that id, its subtasks with
\* it, and keeps the other tasks as they were and in the order they were
\* in; with an id that no task has the collection is as before; after the
\* delete no task of the collection and no displayed task has that id.
DeleteFrame ==
    [][(steps' = steps + 1 /\ last'.op = "deleteTask")
       => LET kept == {i \in 1..Len(tasks) : Get(tasks[i], "id") # last'.id}
          IN  /\ Len(tasks') = Cardinality(kept)
              /\ \A i \in kept :
                    tasks'[Cardinality({j \in kept : j <= i})] = tasks[i]
              /\ kept = 1..Len(tasks) => tasks' = tasks
              /\ \A i \in 1..Len(tasks') : Get(tasks'[i], "id") # last'.id
              /\ \A i \in 1..Len(DisplayedAfter) :
                    Get(DisplayedAfter[i], "id") # last'.id]_vars

\* the stored task that holds a subtask was deleted: the one task that is
\* left is the other one, which holds no subtask
DeleteFrameWitness ==
    /\ last.op = "deleteTask"
    /\ last.id = NewId(1, 1)
    /\ Len(tasks) = 1
    /\ Get(tasks[1], "id") = NewId(1, 0)
    /\ Get(tasks[1], "subtasks") = None

\* C24. A successful add-task command appends exactly one task at the end
\* of the collection and leaves the entries that were there unchanged and
\* in place; the new task is not completed, has no completedAt, has the
\* trimmed text of the form, an id that no task of the collection had, and
\* createdAt equal to the time of the command.
AddAppends ==
    [][(steps' = steps + 1 /\ last'.op = "addTask")
       => /\ Len(tasks') = Len(tasks) + 1
          /\ SubSeq(tasks', 1, Len(tasks)) = tasks
          /\ LET added == tasks'[Len(tasks')] IN
             /\ ~IsCompleted(added)
             /\ Get(added, "completedAt") = None
             /\ added.text = Trim(last'.arg.taskText)
             /\ added.createdAt = now
             /\ \A i \in 1..Len(tasks) :
                   Get(tasks[i], "id") # Get(added, "id")]_vars

\* every task has a text that is not empty and neither starts nor ends
\* with a blank
TextsTrimmed(ts) ==
    \A i \in 1..Len(ts) :
        /\ ts[i].text # <<>>
        /\ ts[i].text[1] # " "
        /\ ts[i].text[Len(ts[i].text)] # " "

\* C25. Non-empty text: a save of the edit form whose text is empty or made
\* of blanks only is rejected and leaves the collection and the store as
\* they were, so no save stores an empty text; and from a collection in
\* which every text is non-empty and has no blank at either end, an add, a
\* save of the edit form, a toggle, a delete, a subtask operation and a
\* drag reorder lead to a collection of which the same is true, as it is of
\* the empty collection.
NonEmptyText ==
    [][(steps' = steps + 1)
       => /\ last'.op = "editRejected"
             => /\ AllBlank(last'.arg.editedText)
                /\ tasks' = tasks
                /\ store' = store
          /\ last'.op = "editTask" => last'.arg.text # <<>>
          /\ (/\ last'.op \in {"addTask", "editTask", "toggleComplete",
                                "deleteTask", "addSubtask", "toggleSubtask",
                                "deleteSubtask", "dragEnd"}
              /\ TextsTrimmed(tasks))
             => TextsTrimmed(tasks')]_vars

\* a save of the edit form with a blank text was rejected on a task that
\* was added with the text B, typed with a blank before it
NonEmptyTextWitness ==
    /\ last.op = "editRejected"
    /\ last.arg.editedText = <<" ">>
    /\ \E i \in 1..Len(tasks) :
          /\ Get(tasks[i], "id") = last.id
          /\ tasks[i].text = <<"B">>
          /\ tasks[i].createdAt = now

\* the subtasks a subtask operation must leave, given the subtasks before it
SubtasksAfter(op, before, arg) ==
    CASE op = "addSubtask" -> Append(before, arg)
      [] op = "toggleSubtask" ->
            [k \in 1..Len(before) |->
                IF before[k].id = arg
                THEN [id |-> before[k].id, text |-> before[k].text,
                      completed |-> ~before[k].completed,
                      createdAt |-> before[k].createdAt]
                ELSE before[k]]
      [] op = "deleteSubtask" ->
            LET Other(sub) == sub.id # arg IN SelectSeq(before, Other)

-----------------------------------------------------------------------------
(* The view engine on its own: TaskList is given any collection and any    *)
(* view parameters, and the user changes the view and drags tasks          *)

\* the tasks the collections handed to the view are made of
ViewTasks ==
    { [id |-> NewId(1, 0), text |-> <<"a">>, completed |-> FALSE,
       priority |-> "low", createdAt |-> 1, dueDate |-> Some(0)],
      [id |-> NewId(2, 0), text |-> <<"B">>, completed |-> TRUE,
       completedAt |-> Some(2), priority |-> "high", createdAt |-> 2,
       dueDate |-> Some(2 * DayMs), order |-> Some(2)],
      [id |-> NewId(2, 1), text |-> <<"b">>, completed |-> FALSE,
       category |-> Some(<<"a">>), priority |-> "high", createdAt |-> 2,
       dueDate |-> Some(DayMs), order |-> Some(2)],
      [id |-> NewId(3, 0), text |-> <<"A">>, completed |-> FALSE,
       priority |-> "medium", createdAt |-> 3, dueDate |-> None,
       tags |-> Some(<< <<"b">> >>), order |-> Some(0)] }

\* the sequences of at most n different members of pool
RECURSIVE SeqsOfDistinct(_, _)
SeqsOfDistinct(pool, n) ==
    IF n = 0 THEN {<<>>}
    ELSE LET shorter == SeqsOfDistinct(pool, n - 1)
         IN  shorter \cup
             {Append(p[1], p[2]) :
                 p \in {q \in shorter \X pool :
                           /\ Len(q[1]) = n - 1
                           /\ \A i \in 1..Len(q[1]) : q[1][i] # q[2]}}

ViewCollections == SeqsOfDistinct(ViewTasks, MaxTasks)

ViewQueries == {<<>>, <<"a", " ">>, <<"b">>}

\* the state of a running application whose store holds what it shows
Loaded(ts, dark, focus) ==
    /\ phase = "running"
    /\ tasks = ts
    /\ isDarkMode = dark
    /\ isFocusMode = focus
    /\ store = [k \in StoreKeys |->
                  CASE k = "tasks" -> Some(JsonText(StringifyTasks(ts)))
                    [] k = "theme" ->
                          Some(JsonText(IF dark THEN "dark" ELSE "light"))
                    [] k = "focusMode" -> Some(JsonText(focus))]
    /\ now = 2
    /\ imports = NoImports
    /\ exportFile = None
    /\ writeOk = [k \in StoreKeys |-> TRUE]
    /\ steps = 0
    /\ last = NoHistory

InitView ==
    /\ \E ts \in ViewCollections, focus \in BOOLEAN : Loaded(ts, FALSE, focus)
    /\ searchQuery \in ViewQueries
    /\ sortBy \in SortOptions
    /\ sortAscending \in BOOLEAN

NextView ==
    \/ SetSearchQuery(ViewQueries)
    \/ SetSortBy
    \/ SetSortAscending
    \/ ToggleFocusMode(WritesSucceed)
    \/ DragEnd(WritesSucceed)

SpecView == InitView /\ [][NextView]_vars

-----------------------------------------------------------------------------
(* Claims about the view engine and the drag-reorder reconciler            *)

\* the position of id in a sequence of ids, 0 when it is not there
PositionOf(ids, id) ==
    IF \E i \in 1..Len(ids) : ids[i] = id
    THEN CHOOSE i \in 1..Len(ids) : ids[i] = id
    ELSE 0

\* a sequence of ids without the entries equal to id
WithoutId(ids, id) ==
    LET Other(x) == x # id IN SelectSeq(ids, Other)

\* the ids displayed after the step under sortBy = custom
CustomShownAfter ==
    Ids(sortedTasks(tasks', isFocusMode', searchQuery', "custom",
                    sortAscending'))

\* C1. Reorder stability: after a drag that moves the task displayed at
\* position i onto the task displayed at position j (i # j), the sequence
\* displayed under sortBy = custom shows the moved task at position j and
\* the other tasks in the order they were displayed in before the drag,
\* whatever the collection, the filters, the sort key and the direction.
ReorderStability ==
    [][(/\ last'.op = "dragEnd"
        /\ steps' = steps + 1
        /\ PositionOf(Ids(Displayed), last'.id) # 0
        /\ PositionOf(Ids(Displayed), last'.arg[1]) # 0)
       => /\ CustomShownAfter[PositionOf(Ids(Displayed), last'.arg[1])]
                = last'.id
          /\ WithoutId(CustomShownAfter, last'.id)
                = WithoutId(Ids(Displayed), last'.id)]_vars

\* C2. Due-date placement: with sortBy = dueDate, whatever sortAscending is,
\* no displayed task without a due date precedes one that has a due date.
DueDatePlacement ==
    sortBy = "dueDate" =>
        \A i, j \in 1..Len(Displayed) :
            (/\ Get(Displayed[i], "dueDate") = None
             /\ Get(Displayed[j], "dueDate") # None) => j < i

\* the rank the specification gives a priority: high, then medium, then low
SpecRank(p) == IF p = "high" THEN 0 ELSE IF p = "medium" THEN 1 ELSE 2

\* C3. Priority sort direction: with sortBy = priority and sortAscending,
\* every high task is displayed before every medium one and every medium
\* before every low one.
PriorityAscendingHighFirst ==
    (sortBy = "priority" /\ sortAscending) =>
        \A i, j \in 1..Len(Displayed) :
            SpecRank(Displayed[i].priority) < SpecRank(Displayed[j].priority)
                => i < j

\* what TaskList renders with the current search and sort when focus mode
\* is as given
ShownWhenFocus(focus) ==
    sortedTasks(tasks, focus, searchQuery, sortBy, sortAscending)

\* C14. Filter composition: whatever the collection, the search query, the
\* sort key and the direction, the sequence displayed in focus mode is the
\* sequence displayed without focus mode with the completed tasks left
\* out: no completed task, every other task, nothing else, in the same
\* relative order.
FilterComposition ==
    LET NotCompleted(task) == ~IsCompleted(task)
    IN  ShownWhenFocus(TRUE) = SelectSeq(ShownWhenFocus(FALSE), NotCompleted)

\* focus mode is on, a search is active, and a completed task that matches
\* the search is left out between tasks that are shown
FilterCompositionWitness ==
    /\ isFocusMode
    /\ Trim(searchQuery) # <<>>
    /\ Len(Displayed) >= 2
    /\ Len(ShownWhenFocus(FALSE)) > Len(Displayed)

\* the value a sort mode orders a task by
SortKey(task, by) ==
    CASE by = "createdAt" -> task.createdAt
      [] by = "dueDate" -> Get(task, "dueDate")
      [] by = "priority" -> task.priority
      [] by = "alphabetical" -> task.text
      [] by = "custom" -> NumberOr0(task, "order")

\* what TaskList renders with the current filters and sort key in the
\* given direction
ShownWhenAscending(asc) ==
    sortedTasks(tasks, isFocusMode, searchQuery, sortBy, asc)

\* C15. Sort reversal: under createdAt, dueDate, priority and alphabetical,
\* two displayed tasks whose sort keys differ are displayed in one order
\* with sortAscending and in the opposite order without it.
SortReversal ==
    sortBy # "custom" =>
        LET up == ShownWhenAscending(TRUE)
            down == ShownWhenAscending(FALSE)
        IN  \A i, j \in 1..Len(up) :
                (i < j /\ SortKey(up[i], sortBy) # SortKey(up[j], sortBy))
                    => PositionOf(Ids(down), Get(up[j], "id"))
                          < PositionOf(Ids(down), Get(up[i], "id"))

\* C16. Drag no-op: a drag that ends on the dragged item itself, or outside
\* every item, or whose dragged item or target is not a displayed task,
\* leaves the collection (every order field included) and the sort mode as
\* they were.
DragNoOp ==
    [][(/\ steps' = steps + 1
        /\ last'.op \in {"dragEnd", "dragIgnored"}
        /\ \/ last'.arg = None
           \/ last'.arg = Some(last'.id)
           \/ PositionOf(Ids(Displayed), last'.id) = 0
           \/ PositionOf(Ids(Displayed), last'.arg[1]) = 0)
       => /\ tasks' = tasks
          /\ sortBy' = sortBy]_vars

\* C26. Search filter: with query the trimmed and lower-cased search
\* query, a task that passes the focus filter is displayed if and only if
\* query is empty or is a substring of the lower-cased text, of the
\* lower-cased category or of a lower-cased tag of the task; so a query of
\* blanks filters nothing, and a query with blanks around it displays what
\* its trimmed form displays.
SearchFilter ==
    LET query == ToLowerCase(Trim(searchQuery)) IN
    /\ \A i \in 1..Len(tasks) :
          (\E j \in 1..Len(Displayed) : Displayed[j] = tasks[i])
             <=> /\ ~(isFocusMode /\ IsCompleted(tasks[i]))
                 /\ \/ query = <<>>
                    \/ MatchesQuery(tasks[i], query)
    /\ Displayed = sortedTasks(tasks, isFocusMode, Trim(searchQuery), sortBy,
                               sortAscending)

\* the position of a task in the collection, whose tasks differ
IndexInTasks(task) == CHOOSE k \in 1..Len(tasks) : tasks[k] = task

\* C28. Stable sort: under every sort key, custom with a missing order
\* read as 0 included, and in both directions, two displayed tasks with
\* equal sort keys are displayed in the order they have in the collection,
\* and every task that passes the filters is displayed exactly once,
\* nothing else being displayed.
SortIsStable ==
    LET passing == filteredTasks(tasks, isFocusMode, searchQuery) IN
    /\ \A i, j \in 1..Len(Displayed) :
          (i < j /\ SortKey(Displayed[i], sortBy) = SortKey(Displayed[j], sortBy))
             => IndexInTasks(Displayed[i]) < IndexInTasks(Displayed[j])
    /\ Len(Displayed) = Len(passing)
    /\ \A k \in 1..Len(passing) :
          Cardinality({j \in 1..Len(Displayed) : Displayed[j] = passing[k]}) = 1

\* under custom, ascending, three tasks are displayed in another order than
\* the collection has them in, and two of them have equal order, one of
\* the two having none
SortIsStableWitness ==
    /\ sortBy = "custom"
    /\ sortAscending
    /\ Len(Displayed) = 3
    /\ Displayed # tasks
    /\ \E i, j \in 1..3 :
          /\ i < j
          /\ Get(Displayed[i], "order") = None
          /\ Get(Displayed[j], "order") = Some(0)

-----------------------------------------------------------------------------
(* The updaters of App on their own: reorderTasks is handed the lists     *)
(* handleDragEnd can build and lists that name a task the collection does  *)
(* not hold, editTask a task the collection may not hold                   *)

\* a task that no collection holds
ForeignTask ==
    [id |-> UnknownId, text |-> <<"b">>, completed |-> FALSE,
     priority |-> "low", createdAt |-> 0]

\* the orders in which some of the tasks of the collection, and possibly a
\* foreign task, can be listed
ReorderLists ==
    SeqsOfDistinct({tasks[i] : i \in 1..Len(tasks)} \cup {ForeignTask},
                   MaxTasks)

\* App.reorderTasks called with the tasks of newOrder numbered by
\* handleDragEnd, and the persist effect
ReorderTasks(outcomes) ==
    /\ phase = "running"
    /\ Command
    /\ \E newOrder \in ReorderLists, ok \in outcomes :
          /\ SetTasks(reorderTasks(tasks, updatedTasks(newOrder)), ok)
          /\ last' = Hist("reorderTasks", None, updatedTasks(newOrder))
    /\ UNCHANGED <<isDarkMode, isFocusMode, searchQuery, sortBy,
                   sortAscending, now, exportFile, phase>>

\* App.editTask called with an edited copy of a task of the collection or
\* of a task the collection does not hold, and the persist effect
EditTask(outcomes) ==
    /\ phase = "running"
    /\ Command
    /\ \E task \in {tasks[i] : i \in 1..Len(tasks)} \cup {ForeignTask},
          edit \in EditInputs, ok \in outcomes :
          /\ SetTasks(editTask(tasks, EditedTask(task, edit)), ok)
          /\ last' = Hist("editTask", Get(task, "id"), EditedTask(task, edit))
    /\ UNCHANGED <<isDarkMode, isFocusMode, searchQuery, sortBy,
                   sortAscending, now, exportFile, phase>>

\* the collections that hold their tasks in the order they were added in
InsertionOrdered ==
    {ts \in ViewCollections :
        \A i, j \in 1..Len(ts) :
            i < j => /\ ts[i].createdAt <= ts[j].createdAt
                     /\ ts[i].createdAt = ts[j].createdAt
                           => ts[i].id[2] < ts[j].id[2]}

InitReorder ==
    /\ \E ts \in InsertionOrdered : Loaded(ts, FALSE, FALSE)
    /\ searchQuery = <<>>
    /\ sortBy = "createdAt"
    /\ sortAscending = FALSE

NextReorder ==
    \/ ReorderTasks(WritesSucceed)
    \/ DragEnd(WritesSucceed)
    \/ ToggleFocusMode(WritesSucceed)

SpecReorder == InitReorder /\ [][NextReorder]_vars

\* App.editTask and App.deleteTask on their own, from the same collections
NextEdit ==
    \/ EditTask(WritesSucceed)
    \/ DeleteTask(WritesSucceed)

SpecEdit == InitReorder /\ [][NextEdit]_vars

\* the list the step hands to reorderTasks
ListOfStep ==
    IF last'.op = "reorderTasks" THEN last'.arg
    ELSE DragResult(Displayed, last'.id, last'.arg[1])

\* C17. Reorder frame: a call of reorderTasks(list) leaves the length of
\* the collection, its ids and the position of every task as they were; a
\* task whose id is in list ends with order equal to an index it has in
\* list and keeps every other field; a task whose id is not in list is
\* unchanged, order included; ids of list that the collection does not
\* hold add nothing.
ReorderFrame ==
    [][(steps' = steps + 1 /\ last'.op \in {"reorderTasks", "dragEnd"})
       => LET listed == Ids(ListOfStep) IN
          /\ Len(tasks') = Len(tasks)
          /\ Ids(tasks') = Ids(tasks)
          /\ \A i \in 1..Len(tasks) :
                IF \A k \in 1..Len(listed) : listed[k] # Get(tasks[i], "id")
                THEN tasks'[i] = tasks[i]
                ELSE /\ \E k \in 1..Len(listed) :
                           /\ listed[k] = Get(tasks[i], "id")
                           /\ Get(tasks'[i], "order") = Some(k - 1)
                     /\ DOMAIN tasks'[i] \ {"order"}
                           = DOMAIN tasks[i] \ {"order"}
                     /\ \A key \in DOMAIN tasks[i] \ {"order"} :
                           tasks'[i][key] = tasks[i][key]]_vars

\* reorderTasks was handed a list that names a foreign task and one task of
\* a collection of three, and gave that task another order than it had
ReorderFrameWitness ==
    /\ last.op = "reorderTasks"
    /\ Len(tasks) = 3
    /\ Len(last.arg) = 2
    /\ Get(last.arg[1], "id") = UnknownId
    /\ \E i \in 1..Len(tasks) :
          /\ Get(tasks[i], "id") = Get(last.arg[2], "id")
          /\ Get(tasks[i], "order") = Some(1)
          /\ tasks[i] \notin ViewTasks

\* C22. editTask(updated) puts updated in the place of every entry whose
\* id equals updated.id, leaves every other entry and the length of the
\* collection as they were, and leaves the collection as it was when no
\* entry has that id: the task is not inserted.
EditFrame ==
    [][(steps' = steps + 1 /\ last'.op = "editTask")
       => /\ Len(tasks') = Len(tasks)
          /\ \A i \in 1..Len(tasks) :
                tasks'[i] = IF Get(tasks[i], "id") = Get(last'.arg, "id")
                            THEN last'.arg ELSE tasks[i]
          /\ (\A i \in 1..Len(tasks) :
                 Get(tasks[i], "id") # Get(last'.arg, "id"))
             => tasks' = tasks]_vars

\* editTask was called with a task that the collection does not hold, after
\* a call that replaced the second of three tasks
EditFrameWitness ==
    /\ last.op = "editTask"
    /\ last.id = UnknownId
    /\ Len(tasks) = 3
    /\ tasks[2] \notin ViewTasks
    /\ tasks[2].text = <<"b">>
    /\ tasks[1] \in ViewTasks
    /\ tasks[3] \in ViewTasks

-----------------------------------------------------------------------------
(* The codec on its own: a running application holding any collection      *)
(* exports it and imports files                                            *)

FullForm ==
    [taskText |-> <<"B", "\"">>, category |-> <<"a">>, priority |-> "high",
     dueDate |-> Some(1), tags |-> << <<"a">>, <<"b">> >>,
     showRecurrence |-> TRUE,
     recurrence |-> Some([pattern |-> "weekly", interval |-> 2])]

\* a task with every optional field and a subtask; a task that was completed
\* and reopened, whose optional fields are undefined; a task created at the
\* epoch
CodecTasks ==
    { Put(NewTask(FullForm, 1, 0), "subtasks",
          Some(<<[id |-> NewId(1, 1), text |-> <<"a">>, completed |-> TRUE,
                  createdAt |-> 1]>>)),
      Toggled(Toggled(NewTask(PlainForm, 1, 1), 1), 1),
      [id |-> NewId(0, 0), text |-> <<"a">>, completed |-> FALSE,
       priority |-> "low", createdAt |-> 0] }

CodecCollections == SeqsOfDistinct(CodecTasks, MaxTasks)

\* files that are not exports of this application, or are old ones
CodecFiles ==
    MainFiles \cup
    { NullFile,
      ObjectFile([tasks |-> JsonArray(<<LegacyTask>>)]),
      ObjectFile([version |-> EXPORT_VERSION]),
      ObjectFile([version |-> EXPORT_VERSION, tasks |-> NotAnArray]),
      ObjectFile([version |-> EXPORT_VERSION,
                  tasks |-> JsonArray(<<LegacyTask>>)]),
      ObjectFile([version |-> EXPORT_VERSION,
                  tasks |-> JsonArray(<<
                      [id |-> NewId(0, 0), text |-> <<"a">>,
                       completed |-> TRUE, priority |-> "low",
                       createdAt |-> 0],
                      [id |-> NewId(0, 1), text |-> <<"b">>,
                       priority |-> "high", createdAt |-> 1,
                       tags |-> Some(<< <<"a">> >>)] >>)]) }

\* the last file written by an export, exportToJSON's or exportToCSV's, if
\* any
Exported == IF exportFile = None THEN {} ELSE {exportFile[1]}

InitCodec ==
    /\ \E ts \in CodecCollections, dark \in BOOLEAN : Loaded(ts, dark, FALSE)
    /\ searchQuery = <<>>
    /\ sortBy = "createdAt"
    /\ sortAscending = FALSE

NextCodec ==
    \/ Tick
    \/ ExportJSON
    \/ ExportCSV
    \/ StartImport(CodecFiles \cup Exported)
    \/ ImportLoaded(WritesSucceed)
    \/ ImportReadError

SpecCodec == InitCodec /\ [][NextCodec]_vars

-----------------------------------------------------------------------------
(* Claims about the codec                                                  *)

\* the step is the onload of an import
ImportLoadedStep ==
    /\ last'.op \in {"importResolved", "importRejected"}
    /\ Len(imports'.reading) < Len(imports.reading)

\* C5. Export/import round-trip: importing the file that exportToJSON wrote
\* of the current collection leaves a collection equal to it, field by field
\* and in the same order.
ExportImportRoundTrip ==
    [][(/\ ImportLoadedStep
        /\ exportFile # None
        /\ exportFile[1].kind = "object"
        /\ last'.arg.file = exportFile[1]
        /\ exportFile[1].data.tasks.items = StringifyTasks(tasks))
       => /\ last'.op = "importResolved"
          /\ SameCollection(tasks', tasks)]_vars

\* the content the specification has the import reject
RejectedContent(file) ==
    \/ file.kind # "object"
    \/ /\ file.kind = "object"
       /\ \/ "version" \notin DOMAIN file.data
          \/ "tasks" \notin DOMAIN file.data
          \/ ~file.data.tasks.isArray

\* C7. Import rejection: when the content is not valid JSON, or has no
\* version, or its tasks are not a sequence, the import is rejected and the
\* collection, the theme, the focus flag and the three stored values are
\* what they were.
ImportRejection ==
    [][(ImportLoadedStep /\ RejectedContent(last'.arg.file))
       => /\ last'.op = "importRejected"
          /\ imports'.rejected = imports.rejected + 1
          /\ UNCHANGED <<tasks, isDarkMode, isFocusMode, store>>]_vars

\* a file without version that carries tasks was rejected while the
\* collection was not empty
ImportRejectionWitness ==
    /\ last.op = "importRejected"
    /\ last.arg.file.kind = "object"
    /\ "version" \notin DOMAIN last.arg.file.data
    /\ "tasks" \in DOMAIN last.arg.file.data
    /\ tasks # <<>>
    /\ imports.rejected = 1

\* C8. Import migration: the step in which an import resolves leaves the
\* tasks of the file, in file order; a task without priority gets medium and
\* one without createdAt gets the time of the import; a task that carries
\* them keeps both, and every other field is carried over unchanged.
ImportMigration ==
    [][(last'.op = "importResolved"
          /\ imports'.resolved = imports.resolved + 1)
       => /\ Len(tasks') = Len(ItemsOf(last'.arg))
          /\ \A i \in 1..Len(tasks') :
                LET item == ItemsOf(last'.arg)[i] IN
                /\ DOMAIN tasks'[i] = DOMAIN item \cup {"priority", "createdAt"}
                /\ tasks'[i].priority = IF "priority" \in DOMAIN item
                                        THEN item.priority ELSE "medium"
                /\ tasks'[i].createdAt = IF "createdAt" \in DOMAIN item
                                         THEN item.createdAt ELSE now
                /\ \A k \in DOMAIN item \ {"priority", "createdAt"} :
                      tasks'[i][k] = item[k]]_vars

-----------------------------------------------------------------------------
(* The store adapter under a localStorage that can throw: the application  *)
(* is opened, used and reloaded while reads and writes may fail            *)

\* localStorage.setItem, or getItem, returns or throws
MayThrow == BOOLEAN

NextStore ==
    \/ Mount(MayThrow, MayThrow)
    \/ Tick
    \/ SubmitTask(MayThrow)
    \/ ToggleComplete(MayThrow)
    \/ DeleteTask(MayThrow)
    \/ ToggleDarkMode(MayThrow)
    \/ ToggleFocusMode(MayThrow)
    \/ SetSearchQuery(ViewQueries)
    \/ SetSortBy
    \/ SetSortAscending
    \/ Reload

SpecStore == Init /\ [][NextStore]_vars

-----------------------------------------------------------------------------
(* Claims about the store adapter                                          *)

\* the step is a command that calls setTasks
SetTasksStep ==
    /\ steps' = steps + 1
    /\ last'.op \in {"addTask", "toggleComplete", "deleteTask"}

\* the stored tasks read the same as the collection in memory
StoredIs(st, ts) ==
    /\ st["tasks"] # None
    /\ st["tasks"][1].parses
    /\ SameCollection(st["tasks"][1].value, ts)

\* C11. Save failure: a command whose save throws still completes with the
\* new collection in memory and leaves the store as it was; nothing writes
\* the tasks again until the next command that changes the collection, and
\* when the save of a command succeeds the stored tasks read the same as
\* the collection in memory again.
SaveFailure ==
    [][/\ (SetTasksStep /\ ~writeOk'["tasks"])
          => /\ store' = store
             /\ last'.op = "addTask" => Len(tasks') = Len(tasks) + 1
             /\ last'.op = "toggleComplete"
                   => tasks' = toggleComplete(tasks, last'.id, now)
             /\ last'.op = "deleteTask" => tasks' = deleteTask(tasks, last'.id)
       /\ (SetTasksStep /\ writeOk'["tasks"]) => StoredIs(store', tasks')
       /\ (~SetTasksStep /\ phase = "running")
          => store'["tasks"] = store["tasks"]]_vars

\* a save has thrown after a delete: the store still holds a task that the
\* collection in memory no longer has
SaveFailureWitness ==
    /\ phase = "running"
    /\ last.op = "deleteTask"
    /\ ~writeOk["tasks"]
    /\ store["tasks"] # None
    /\ store["tasks"][1].parses
    /\ Len(store["tasks"][1].value) > Len(tasks)

\* the step mounts App
MountStep == phase = "boot" /\ phase' = "running"

\* C12. Load fallback: when App is mounted, each of the three values is the
\* default if its key is absent, if the stored text does not parse or if
\* reading throws, and the stored value otherwise; after a reload, a value
\* whose last save succeeded and whose read succeeds is the value the
\* application held before the reload.
LoadFallback ==
    [][MountStep =>
         LET reads == last'.arg.reads
             Usable(k) == /\ reads[k]
                          /\ store[k] # None
                          /\ store[k][1].parses
         IN  /\ tasks' = IF Usable("tasks") THEN store["tasks"][1].value
                         ELSE <<>>
             /\ isDarkMode' = (Usable("theme")
                                 /\ store["theme"][1].value = "dark")
             /\ isFocusMode' = IF Usable("focusMode")
                               THEN store["focusMode"][1].value ELSE FALSE
             /\ last.op = "reload" =>
                   /\ (writeOk["tasks"] /\ reads["tasks"])
                         => SameCollection(tasks', last.arg.tasks)
                   /\ (writeOk["theme"] /\ reads["theme"])
                         => isDarkMode' = last.arg.isDarkMode
                   /\ (writeOk["focusMode"] /\ reads["focusMode"])
                         => isFocusMode' = last.arg.isFocusMode]_vars

\* App was mounted again after a reload and loaded a collection that is not
\* empty, while the read of the theme threw
LoadFallbackWitness ==
    /\ last.op = "mount"
    /\ steps >= 2
    /\ tasks # <<>>
    /\ last.arg.reads["tasks"]
    /\ ~last.arg.reads["theme"]

\* C29. View changes are read-only: a change of the search query, of the
\* sort key or of the sort direction leaves the collection and the three
\* stored values as they were; a toggle of focus mode or of the theme
\* leaves the collection, the stored tasks and the stored value of the
\* other setting as they were, and stores the new value under its own key
\* when the write succeeds, nothing when it throws.
ViewReadOnly ==
    [][(steps' = steps + 1)
       => /\ last'.op \in {"setSearchQuery", "setSortBy", "setSortAscending"}
             => /\ tasks' = tasks
                /\ store' = store
          /\ last'.op = "toggleFocusMode"
             => /\ tasks' = tasks
                /\ store'["tasks"] = store["tasks"]
                /\ store'["theme"] = store["theme"]
                /\ store'["focusMode"]
                      = IF writeOk'["focusMode"]
                        THEN Some(JsonText(isFocusMode'))
                        ELSE store["focusMode"]
          /\ last'.op = "toggleDarkMode"
             => /\ tasks' = tasks
                /\ store'["tasks"] = store["tasks"]
                /\ store'["focusMode"] = store["focusMode"]
                /\ store'["theme"]
                      = IF writeOk'["theme"]
                        THEN Some(JsonText(IF isDarkMode' THEN "dark"
                                           ELSE "light"))
                        ELSE store["theme"]]_vars

\* focus mode was switched on and stored while the store still held a task
\* that a delete with a failed save had removed from the collection
ViewReadOnlyWitness ==
    /\ last.op = "toggleFocusMode"
    /\ isFocusMode
    /\ writeOk["focusMode"]
    /\ store["focusMode"] = Some(JsonText(TRUE))
    /\ ~writeOk["tasks"]
    /\ store["tasks"] # None
    /\ store["tasks"][1].parses
    /\ Len(store["tasks"][1].value) > Len(tasks)

\* the step mounts App while the tasks key is absent or holds text that
\* does not parse
MountUnreadable ==
    /\ MountStep
    /\ \/ store["tasks"] = None
       \/ ~store["tasks"][1].parses

\* C30 as stated. Startup overwrites unreadable data: when App is mounted
\* and the tasks key is absent or holds text that does not parse, the
\* collection starts empty and the initial save stores the empty collection
\* under the tasks key, so that the text stored before is gone.
StartupOverwrites ==
    [][MountUnreadable
       => /\ tasks' = <<>>
          /\ store'["tasks"] = Some(JsonText(<<>>))]_vars

\* C30 as amended. When App is mounted and the tasks key is absent or holds
\* text that does not parse, the collection starts empty; when the initial
\* save succeeds the tasks key holds the empty collection and the text
\* stored before is gone, and when it throws the tasks key holds what it
\* held.
StartupOverwritesWhenSaved ==
    [][MountUnreadable
       => /\ tasks' = <<>>
          /\ store'["tasks"] = IF writeOk'["tasks"] THEN Some(JsonText(<<>>))
                               ELSE store["tasks"]]_vars

\* App was mounted over a tasks key that held text that does not parse,
\* and the key now holds the empty collection
StartupOverwritesWitness ==
    /\ last.op = "mount"
    /\ steps = 0
    /\ last.arg.store["tasks"] = Some(CorruptText)
    /\ tasks = <<>>
    /\ store["tasks"] = Some(JsonText(<<>>))

-----------------------------------------------------------------------------
(* Claims about the CSV export                                             *)

\* the pieces of text between the separators that are not inside a pair
\* of double quotes
SplitOutsideQuotes(text, sep) ==
    LET seps == {p \in 1..Len(text) :
                    /\ text[p] = sep
                    /\ Cardinality({q \in 1..(p - 1) : text[q] = "\""}) % 2 = 0}
        ends == seps \cup {0, Len(text) + 1}
        Nth(k) == CHOOSE e \in ends : Cardinality({x \in ends : x < e}) = k
    IN  [k \in 1..(Cardinality(seps) + 1) |->
            SubSeq(text, Nth(k - 1) + 1, Nth(k) - 1)]

\* the lines of a CSV text, and the raw fields of a line
CsvLines(text) == SplitOutsideQuotes(text, "\n")
CsvFields(line) == SplitOutsideQuotes(line, ",")

RECURSIVE Unquoted(_)
\* the text a quoted field stands for: what is between the wrapping quotes,
\* each pair of quotes read as one; a quote that is not doubled is kept
\* with a mark that no text contains
Unquoted(inner) ==
    IF inner = <<>> THEN <<>>
    ELSE IF Head(inner) # "\"" THEN <<Head(inner)>> \o Unquoted(Tail(inner))
    ELSE IF Len(inner) >= 2 /\ inner[2] = "\""
         THEN <<"\"">> \o Unquoted(Tail(Tail(inner)))
    ELSE <<"\"", "unpaired">> \o Unquoted(Tail(inner))

\* the number of double quotes in a text
QuoteCount(text) == Cardinality({i \in 1..Len(text) : text[i] = "\""})

RECURSIVE WithSemicolons(_)
\* parts with "; " between them
WithSemicolons(parts) ==
    IF parts = <<>> THEN <<>>
    ELSE IF Tail(parts) = <<>> THEN Head(parts)
    ELSE Head(parts) \o <<";", " ">> \o WithSemicolons(Tail(parts))

\* C18. CSV export: the file starts with the header line
\* ID,Text,Completed,Category,Priority,Due Date,Tags,Created At and has one
\* line per task after it, in collection order; the second field of a line
\* is the text of its task wrapped in double quotes with every double quote
\* of the text doubled, the third is Yes or No as the task is completed or
\* not, and the seventh is the tags with "; " between them.
CsvExport ==
    last.op = "exportCSV" =>
        LET lines == CsvLines(exportFile[1].text) IN
        /\ Len(lines) = Len(tasks) + 1
        /\ lines[1] = <<"I", "D", ",", "T", "e", "x", "t", ",",
                        "C", "o", "m", "p", "l", "e", "t", "e", "d", ",",
                        "C", "a", "t", "e", "g", "o", "r", "y", ",",
                        "P", "r", "i", "o", "r", "i", "t", "y", ",",
                        "D", "u", "e", " ", "D", "a", "t", "e", ",",
                        "T", "a", "g", "s", ",",
                        "C", "r", "e", "a", "t", "e", "d", " ", "A", "t">>
        /\ \A i \in 1..Len(tasks) :
              LET fields == CsvFields(lines[i + 1])
                  quoted == fields[2]
                  inner == SubSeq(quoted, 2, Len(quoted) - 1)
                  tags == IF Get(tasks[i], "tags") = None THEN <<>>
                          ELSE tasks[i].tags[1]
              IN  /\ Len(fields) = 8
                  /\ fields[1] = IdText(Get(tasks[i], "id"))
                  /\ Len(quoted) >= 2
                  /\ quoted[1] = "\""
                  /\ quoted[Len(quoted)] = "\""
                  /\ Unquoted(inner) = tasks[i].text
                  /\ QuoteCount(inner) = 2 * QuoteCount(tasks[i].text)
                  /\ fields[3] = IF IsCompleted(tasks[i])
                                 THEN <<"Y", "e", "s">> ELSE <<"N", "o">>
                  /\ fields[7] = WithSemicolons(tags)

\* the collection B" with tags a and b was exported: its line holds the
\* text field "B""" and the tags field a; b
CsvExportWitness ==
    /\ last.op = "exportCSV"
    /\ \E i \in 1..Len(tasks) :
          /\ tasks[i].text = <<"B", "\"">>
          /\ CsvFields(CsvLines(exportFile[1].text)[i + 1])[2]
                = <<"\"", "B", "\"", "\"", "\"">>
          /\ CsvFields(CsvLines(exportFile[1].text)[i + 1])[7]
                = <<"a", ";", " ", "b">>
    /\ Len(tasks) >= 2

====
